---- MODULE Spec2Model ----
(***************************************************************************)
(* The sports recommendation service of MATwave/gorkycode.                 *)
(*                                                                         *)
(* Two handler variants answer POST /recommendations:                      *)
(*   "main" is src/main.py     (inline catalog facility_to_cohorts),       *)
(*   "app"  is src/app/main.py (catalog queried from the database).        *)
(* Strings of the source that are written in Cyrillic are transliterated.  *)
(***************************************************************************)
EXTENDS Integers, Sequences, FiniteSets, TLC

VARIABLES
    req,                  \* request id -> the handler's frame (user, pc, locals, response)
    facility_to_cohorts,  \* src/main.py:54 the module-level catalog, in dict order
    db                    \* src/app/main.py:14-18 the sqlite database behind SessionLocal

vars == <<req, facility_to_cohorts, db>>

----------------------------------------------------------------------------
(* Bounds of the model *)

MaxFrequency == 5   \* training_frequency ranges up to this many sessions a week
NumRequests == 2    \* concurrent requests of SpecConcurrent
MaxCatalog == 2     \* length of the catalogs SpecMatch draws

----------------------------------------------------------------------------
(* UserInput *)

ScoringFields ==
    {"fitness_level", "age_category", "training_type", "training_goal",
     "health_status", "training_frequency"}

OtherFields ==
    {"sports_facility", "group_or_individual", "training_time", "chronic_diseases",
     "weight", "height", "health_group", "skill_focus", "cooperation", "budget"}

\* A UserInput holds the fields the pydantic model declares (ScoringFields and
\* OtherFields): attribute access to any other name raises AttributeError.
HasAttr(user, name) == name \in DOMAIN user

\* Optional[...] values: <<>> is None, <<v>> is the value v. Floats are whole numbers.
OtherBase ==
    [sports_facility |-> "fitnes-centr", group_or_individual |-> 1, training_time |-> 1,
     chronic_diseases |-> <<>>, weight |-> 70, height |-> 170, health_group |-> <<>>,
     skill_focus |-> <<>>, cooperation |-> TRUE, budget |-> <<>>]

OtherAlt ==
    [sports_facility |-> "otkrytyj stadion", group_or_individual |-> 2, training_time |-> 3,
     chronic_diseases |-> <<"astma">>, weight |-> 95, height |-> 188, health_group |-> <<2>>,
     skill_focus |-> <<1, 2>>, cooperation |-> FALSE, budget |-> <<5000>>]

\* r with the fields of s added (s wins on common fields).
Merge(r, s) ==
    [f \in (DOMAIN r) \cup (DOMAIN s) |-> IF f \in DOMAIN s THEN s[f] ELSE r[f]]

MkUser(fl, ac, tt, tg, hs, tf, other) ==
    Merge(other,
          [fitness_level |-> fl, age_category |-> ac, training_type |-> tt,
           training_goal |-> tg, health_status |-> hs, training_frequency |-> tf])

\* The documented domains of the scoring fields (Field descriptions).
FitnessLevels == 1..3
AgeCategories == 1..4
TrainingTypes == 1..4
TrainingGoals == 1..4
HealthStatuses == 1..3
TrainingFrequencies == 0..MaxFrequency

InDomain(user) ==
    /\ user.fitness_level \in FitnessLevels
    /\ user.age_category \in AgeCategories
    /\ user.training_type \in TrainingTypes
    /\ user.training_goal \in TrainingGoals
    /\ user.health_status \in HealthStatuses
    /\ user.training_frequency >= 0

----------------------------------------------------------------------------
(* determine_cohort, statement by statement *)

\* determine_cohort with the frequency threshold off by one (> 4 for >= 4).
determine_cohort_strict_frequency(user) ==
    user.fitness_level * 10 + user.age_category
    + (IF user.training_goal = 4 /\ user.fitness_level = 3 THEN 20 ELSE 0)
    - (IF user.health_status = 3 THEN 10 ELSE 0)
    + (IF user.training_frequency > 4 THEN 5 ELSE 0)
    + (IF user.training_type \in {1, 2} /\ user.health_status = 1 THEN 5 ELSE 0)

\* determine_cohort reading training_time where it should read training_frequency.
determine_cohort_reads_training_time(user) ==
    user.fitness_level * 10 + user.age_category
    + (IF user.training_goal = 4 /\ user.fitness_level = 3 THEN 20 ELSE 0)
    - (IF user.health_status = 3 THEN 10 ELSE 0)
    + (IF user.training_time >= 3 THEN 5 ELSE 0)
    + (IF user.training_type \in {1, 2} /\ user.health_status = 1 THEN 5 ELSE 0)

\* determine_cohort with the health penalty doubled (-20 for -10).
determine_cohort_double_penalty(user) ==
    user.fitness_level * 10 + user.age_category
    + (IF user.training_goal = 4 /\ user.fitness_level = 3 THEN 20 ELSE 0)
    - (IF user.health_status = 3 THEN 20 ELSE 0)
    + (IF user.training_frequency >= 4 THEN 5 ELSE 0)
    + (IF user.training_type \in {1, 2} /\ user.health_status = 1 THEN 5 ELSE 0)

determine_cohort(user) ==
    LET c0 == 0
        c1 == c0 + user.fitness_level * 10
        c2 == c1 + user.age_category
        c3 == IF user.training_goal = 4 /\ user.fitness_level = 3 THEN c2 + 20 ELSE c2
        c4 == IF user.health_status = 3 THEN c3 - 10 ELSE c3
        c5 == IF user.training_frequency >= 4 THEN c4 + 5 ELSE c4
        c6 == IF user.training_type \in {1, 2} /\ user.health_status = 1 THEN c5 + 5 ELSE c5
    IN  c6

app_determine_cohort(user) ==
    LET c0 == 0
        c1 == c0 + user.fitness_level * 10
        c2 == c1 + user.age_category
        c3 == IF user.training_goal = 4 /\ user.fitness_level = 3 THEN c2 + 20 ELSE c2
        c4 == IF user.health_status = 3 THEN c3 - 10 ELSE c3
        c5 == IF user.training_frequency >= 4 THEN c4 + 5 ELSE c4
        c6 == IF user.training_type \in {1, 2} /\ user.health_status = 1 THEN c5 + 5 ELSE c5
    IN  c6

\* The call determine_cohort(user) of the variant's handler.
CohortOf(variant, user) ==
    IF variant = "main" THEN determine_cohort(user) ELSE app_determine_cohort(user)

----------------------------------------------------------------------------
(* The catalog of src/main.py and recommend_facilities *)

\* facility_to_cohorts as the module defines it: name -> range(low, high), in
\* insertion order (the order .items() iterates in).
FacilityToCohorts ==
    << [name |-> "Fitnes-centr", low |-> 20, high |-> 50],
       [name |-> "Otkrytyj stadion", low |-> 10, high |-> 40],
       [name |-> "Trenazhernyj zal", low |-> 30, high |-> 60],
       [name |-> "Stadion dlya sorevnovatelnoj podgotovki", low |-> 40, high |-> 70] >>

NoFacilityFound == "Podhodyashchih ploshchadok ne najdeno"

\* Membership with the upper bound included (low <= cohort <= high).
InRange_closed(cohort, valid_cohorts) ==
    valid_cohorts.low <= cohort /\ cohort <= valid_cohorts.high

\* cohort in range(low, high)
InRange(cohort, valid_cohorts) ==
    valid_cohorts.low <= cohort /\ cohort < valid_cohorts.high

\* The names of the entries of items that pass test, in the order of items.
RECURSIVE Comprehension(_, _)
Comprehension(items, cohort) ==
    IF items = <<>> THEN <<>>
    ELSE IF InRange(cohort, Head(items))
         THEN <<Head(items).name>> \o Comprehension(Tail(items), cohort)
         ELSE Comprehension(Tail(items), cohort)

\* recommend_facilities without the fallback: the bare comprehension.
recommend_facilities_no_fallback(cohort) ==
    Comprehension(facility_to_cohorts, cohort)

recommend_facilities(cohort) ==
    LET facilities == Comprehension(facility_to_cohorts, cohort)
    IN  IF facilities # <<>> THEN facilities ELSE <<NoFacilityFound>>

----------------------------------------------------------------------------
(* The database of src/app/main.py *)

\* Rows of sports_playgrounds (the columns the handler reads).
PlaygroundRows ==
    << [name |-> "Dvor na Lenina", district |-> "Sovetskij"],
       [name |-> "Stadion Trud", district |-> "Nizhegorodskij"] >>

Databases ==
    {[available |-> a, rows |-> rws] : a \in BOOLEAN, rws \in {<<>>, PlaygroundRows}}

RECURSIVE QueryByDistrict(_, _)
QueryByDistrict(rows, district) ==
    IF rows = <<>> THEN <<>>
    ELSE IF Head(rows).district = district
         THEN <<Head(rows).name>> \o QueryByDistrict(Tail(rows), district)
         ELSE QueryByDistrict(Tail(rows), district)

----------------------------------------------------------------------------
(* The handlers of POST /recommendations *)

Variants == {"main", "app"}

\* str(e) of the AttributeError that reading an undeclared field raises.
AttributeErrorMessage(name) ==
    "'UserInput' object has no attribute '" \o name \o "'"

\* str(e) of the error of a query on a database that cannot be opened.
OperationalErrorMessage == "(sqlite3.OperationalError) unable to open database file"

\* f"Oshibka obrabotki dannyh: {str(e)}"
ErrorDetail(message) == "Oshibka obrabotki dannyh" \o ": " \o message

\* What the caller receives: a Recommendation (status 200, cohort, names) or the
\* HTTPException's status and detail.
NoResponse == [status |-> 0, cohort |-> 0, names |-> <<>>, detail |-> ""]

\* The frame of a request that FastAPI has routed to get_recommendations.
Frame(variant, user) ==
    [variant |-> variant, user |-> user, pc |-> "start", cohort |-> 0,
     facilities |-> <<>>, exc |-> "", response |-> NoResponse]

\* cohort = determine_cohort(user)
Score(r) ==
    /\ req[r].pc = "start"
    /\ req' = [req EXCEPT ![r].cohort = CohortOf(req[r].variant, req[r].user),
                          ![r].pc = "scored"]
    /\ UNCHANGED <<facility_to_cohorts, db>>

\* Match that also removes the matched entries from the shared catalog.
Match_consuming(r) ==
    /\ req[r].pc = "scored"
    /\ req[r].variant = "main"
    /\ req' = [req EXCEPT ![r].facilities = recommend_facilities(req[r].cohort),
                          ![r].pc = "matched"]
    /\ facility_to_cohorts' =
           SelectSeq(facility_to_cohorts, LAMBDA e : ~InRange(req[r].cohort, e))
    /\ UNCHANGED db

\* src/main.py: facilities = recommend_facilities(cohort)
Match(r) ==
    /\ req[r].pc = "scored"
    /\ req[r].variant = "main"
    /\ req' = [req EXCEPT ![r].facilities = recommend_facilities(req[r].cohort),
                          ![r].pc = "matched"]
    /\ UNCHANGED <<facility_to_cohorts, db>>

\* src/app/main.py: the query filtered by user.district and the list of names.
\* The filter's argument is evaluated before the query is sent.
Query(r) ==
    /\ req[r].pc = "scored"
    /\ req[r].variant = "app"
    /\ IF ~HasAttr(req[r].user, "district")
       THEN req' = [req EXCEPT ![r].exc = AttributeErrorMessage("district"),
                                ![r].pc = "raised"]
       ELSE IF ~db.available
            THEN req' = [req EXCEPT ![r].exc = OperationalErrorMessage,
                                     ![r].pc = "raised"]
            ELSE req' = [req EXCEPT
                            ![r].facilities = QueryByDistrict(db.rows, req[r].user["district"]),
                            ![r].pc = "matched"]
    /\ UNCHANGED <<facility_to_cohorts, db>>

\* return Recommendation(cohort=cohort, ...)
Return(r) ==
    /\ req[r].pc = "matched"
    /\ req' = [req EXCEPT ![r].response =
                              [status |-> 200, cohort |-> req[r].cohort,
                               names |-> req[r].facilities, detail |-> ""],
                          ![r].pc = "done"]
    /\ UNCHANGED <<facility_to_cohorts, db>>

\* except Exception as e: raise HTTPException(status_code=500, detail=...)
Fail(r) ==
    /\ req[r].pc = "raised"
    /\ req' = [req EXCEPT ![r].response =
                              [status |-> 500, cohort |-> 0, names |-> <<>>,
                               detail |-> ErrorDetail(req[r].exc)],
                          ![r].pc = "done"]
    /\ UNCHANGED <<facility_to_cohorts, db>>

Next ==
    \/ \E r \in DOMAIN req : Score(r)
    \/ \E r \in DOMAIN req : Match(r)
    \/ \E r \in DOMAIN req : Query(r)
    \/ \E r \in DOMAIN req : Return(r)
    \/ \E r \in DOMAIN req : Fail(r)

----------------------------------------------------------------------------
(* Spec: one request through either handler, the catalog as the code has it *)

HandlerInputs ==
    {MkUser(fl, ac, tt, tg, hs, tf, OtherBase) :
        fl \in (0..4) \cup {7}, ac \in 0..5, tt \in TrainingTypes, tg \in TrainingGoals,
        hs \in HealthStatuses, tf \in TrainingFrequencies}

Init ==
    /\ \E variant \in Variants, user \in HandlerInputs :
           req = [r \in 1..1 |-> Frame(variant, user)]
    /\ facility_to_cohorts = FacilityToCohorts
    /\ db \in Databases

Spec == Init /\ [][Next]_vars

----------------------------------------------------------------------------
(* SpecScore: determine_cohort applied to inputs in and out of the documented domains *)

ScoreInputs ==
    {MkUser(fl, ac, tt, tg, hs, tf, other) :
        fl \in (-1..4) \cup {99}, ac \in -1..5, tt \in 0..5, tg \in 0..5,
        hs \in 0..4, tf \in -1..MaxFrequency, other \in {OtherBase, OtherAlt}}

InitScore ==
    /\ \E variant \in Variants, user \in ScoreInputs :
           req = [r \in 1..1 |-> Frame(variant, user)]
    /\ facility_to_cohorts = FacilityToCohorts
    /\ db = [available |-> TRUE, rows |-> PlaygroundRows]

NextScore == \E r \in DOMAIN req : Score(r)

SpecScore == InitScore /\ [][NextScore]_vars

----------------------------------------------------------------------------
(* SpecMatch: the handler of src/main.py over catalogs of up to MaxCatalog entries *)

CatalogNames == {<<"A", "B", "C", "D">>[i] : i \in 1..MaxCatalog}

CutPoints == {10, 30, 60}

CatalogEntries ==
    {e \in [name : CatalogNames, low : CutPoints, high : CutPoints] : e.low <= e.high}

\* dict keys are unique
Catalogs ==
    {c \in UNION {[1..n -> CatalogEntries] : n \in 0..MaxCatalog} :
        \A i, j \in DOMAIN c : c[i].name = c[j].name => i = j}

\* One input for each cohort 10 * fl + ac.
MatchInputs ==
    {MkUser(fl, ac, 3, 1, 2, 0, OtherBase) : fl \in 0..7, ac \in {0, 5, 9}}

InitMatch ==
    /\ \E user \in MatchInputs : req = [r \in 1..1 |-> Frame("main", user)]
    /\ facility_to_cohorts \in Catalogs \cup {FacilityToCohorts}
    /\ db = [available |-> TRUE, rows |-> PlaygroundRows]

NextMatch ==
    \/ \E r \in DOMAIN req : Score(r)
    \/ \E r \in DOMAIN req : Match(r)
    \/ \E r \in DOMAIN req : Return(r)

SpecMatch == InitMatch /\ [][NextMatch]_vars

----------------------------------------------------------------------------
(* SpecConcurrent: NumRequests requests in flight, their steps interleaved *)

Profiles ==
    { MkUser(1, 1, 3, 1, 1, 0, OtherBase),
      MkUser(3, 4, 1, 4, 1, 5, OtherBase),
      MkUser(1, 1, 4, 1, 3, 0, OtherAlt),
      MkUser(2, 3, 1, 2, 1, 3, OtherBase),
      MkUser(99, 1, 3, 1, 2, 0, OtherAlt) }

InitConcurrent ==
    /\ req \in [1..NumRequests -> {Frame(variant, user) : variant \in Variants, user \in Profiles}]
    /\ facility_to_cohorts = FacilityToCohorts
    /\ db \in Databases

SpecConcurrent == InitConcurrent /\ [][Next]_vars

----------------------------------------------------------------------------
(* Properties of determine_cohort (SpecScore) *)

Scored(r) == req[r].pc # "start"

\* The rule table: the base and the four adjustments, each taken on its own.
RuleBase(user) == user.fitness_level * 10 + user.age_category
RuleGoal(user) == IF user.training_goal = 4 /\ user.fitness_level = 3 THEN 20 ELSE 0
RuleHealth(user) == IF user.health_status = 3 THEN -10 ELSE 0
RuleFrequency(user) == IF user.training_frequency >= 4 THEN 5 ELSE 0
RuleType(user) ==
    IF (user.training_type = 1 \/ user.training_type = 2) /\ user.health_status = 1
    THEN 5 ELSE 0
RuleTotal(user) ==
    RuleBase(user) + RuleGoal(user) + RuleHealth(user) + RuleFrequency(user) + RuleType(user)

StackingExample == MkUser(3, 4, 1, 4, 1, 5, OtherBase)

StackingExampleIs64 ==
    \A variant \in Variants : CohortOf(variant, StackingExample) = 64

\* C1: for every UserInput with integer fields, in or out of the documented
\* domains, the cohort either variant computes is the rule-table total, and the
\* bonus-stacking example gives 64.
C1_CohortIsRuleTotal ==
    /\ \A r \in DOMAIN req : Scored(r) => req[r].cohort = RuleTotal(req[r].user)
    /\ StackingExampleIs64

\* An out-of-domain input (fitness_level 99, training_frequency 4) has been scored
\* by the handler of src/main.py.
C1_Witness ==
    \E r \in DOMAIN req :
        /\ Scored(r)
        /\ req[r].variant = "main"
        /\ req[r].user.fitness_level = 99
        /\ req[r].user.training_frequency = 4
        /\ req[r].user.health_status = 3
        /\ req[r].cohort = 990 + req[r].user.age_category - 10 + 5

\* user with its non-scoring fields taken from other.
WithOther(user, other) == Merge(user, other)

\* The inputs that differ from user in one non-scoring field, or in all of them.
OtherVariations(user) ==
    {[user EXCEPT ![f] = IF user[f] = OtherBase[f] THEN OtherAlt[f] ELSE OtherBase[f]] :
        f \in OtherFields}
    \cup {WithOther(user, OtherBase), WithOther(user, OtherAlt)}

\* C2: the cohort depends only on the six scoring fields: every input that agrees
\* with the scored one on them gets the cohort the scored one got, whatever its
\* other fields hold.
C2_OnlyScoringFieldsMatter ==
    \A r \in DOMAIN req :
        Scored(r) =>
            \A other \in OtherVariations(req[r].user) :
                /\ \A f \in ScoringFields : other[f] = req[r].user[f]
                /\ CohortOf(req[r].variant, other) = req[r].cohort

\* A scored input whose non-scoring fields all differ from the base ones and which
\* takes the frequency bonus.
C2_Witness ==
    \E r \in DOMAIN req :
        /\ Scored(r)
        /\ req[r].variant = "main"
        /\ \A f \in OtherFields : req[r].user[f] = OtherAlt[f]
        /\ req[r].user.training_frequency >= 4
        /\ req[r].cohort = CohortOf("main", WithOther(req[r].user, OtherBase))

InDomainInputs == {user \in ScoreInputs : InDomain(user)}

BoundsAttained ==
    \A variant \in Variants :
        /\ \E user \in InDomainInputs : CohortOf(variant, user) = 1
        /\ \E user \in InDomainInputs : CohortOf(variant, user) = 64

\* C10: for an input whose scoring fields lie in their documented domains the
\* cohort is between 1 and 64, and both 1 and 64 are cohorts of such inputs.
C10_InDomainCohortRange ==
    /\ \A r \in DOMAIN req :
           (Scored(r) /\ InDomain(req[r].user)) =>
               (1 <= req[r].cohort /\ req[r].cohort <= 64)
    /\ BoundsAttained

\* The in-domain input with the lowest cohort has been scored.
C10_Witness ==
    \E r \in DOMAIN req :
        /\ Scored(r)
        /\ InDomain(req[r].user)
        /\ req[r].user.health_status = 3
        /\ req[r].cohort = 1

----------------------------------------------------------------------------
(* Properties of recommend_facilities (SpecMatch) *)

Matched(r) == req[r].pc \in {"matched", "done"}

\* The places of the catalog entries whose range holds cohort.
MatchingPlaces(cohort) ==
    {i \in DOMAIN facility_to_cohorts :
        /\ facility_to_cohorts[i].low <= cohort
        /\ cohort < facility_to_cohorts[i].high}

\* names is the names of the matching entries, each once, in catalog order: the
\* entry at place i is named at the position that counts the matching places up to i.
IsSelectionInOrder(names, cohort) ==
    LET places == MatchingPlaces(cohort)
    IN  /\ Len(names) = Cardinality(places)
        /\ \A i \in places :
               names[Cardinality({j \in places : j <= i})] = facility_to_cohorts[i].name

SpecExampleCatalog ==
    << [name |-> "A", low |-> 10, high |-> 30], [name |-> "B", low |-> 30, high |-> 60] >>

\* C3: when some facility matches the cohort, recommend_facilities returns exactly
\* the names of the entries with low <= cohort < high, each once, in catalog order;
\* on the catalog A [10,30), B [30,60) cohort 25 gives A and cohort 30 gives B.
C3_MatchesInCatalogOrder ==
    \A r \in DOMAIN req :
        (Matched(r) /\ req[r].variant = "main") =>
            /\ MatchingPlaces(req[r].cohort) # {} =>
                   IsSelectionInOrder(req[r].facilities, req[r].cohort)
            /\ (facility_to_cohorts = SpecExampleCatalog /\ req[r].cohort = 25) =>
                   req[r].facilities = <<"A">>
            /\ (facility_to_cohorts = SpecExampleCatalog /\ req[r].cohort = 30) =>
                   req[r].facilities = <<"B">>

\* The boundary shared by two ranges: cohort 30 on a catalog that lists B [30,60)
\* before A [10,30) has matched B alone.
C3_Witness ==
    \E r \in DOMAIN req :
        /\ Matched(r)
        /\ facility_to_cohorts =
               << [name |-> "B", low |-> 30, high |-> 60],
                  [name |-> "A", low |-> 10, high |-> 30] >>
        /\ req[r].cohort = 30
        /\ req[r].facilities = <<"B">>

\* C6 (as claimed): with an empty catalog the matcher returns the empty list, for
\* every cohort.
C6_EmptyCatalogGivesEmptyList ==
    \A r \in DOMAIN req :
        (Matched(r) /\ facility_to_cohorts = <<>>) => req[r].facilities = <<>>

----------------------------------------------------------------------------
(* Properties of the handlers (Spec) *)

Done(r) == req[r].pc = "done"

Returned(r) == Done(r) /\ req[r].response.status = 200

SeqRange(names) == {names[i] : i \in DOMAIN names}

\* C4 (as claimed): every request runs the two-step pipeline in both variants: it
\* returns a Recommendation whose cohort is determine_cohort of the profile and whose
\* names are the catalog filtered by that cohort (or the no-match fallback).
C4_PipelineInBothVariants ==
    \A r \in DOMAIN req :
        Done(r) =>
            /\ req[r].response.status = 200
            /\ req[r].response.cohort = RuleTotal(req[r].user)
            /\ \/ IsSelectionInOrder(req[r].response.names, req[r].response.cohort)
               \/ /\ MatchingPlaces(req[r].response.cohort) = {}
                  /\ req[r].response.names = <<NoFacilityFound>>

\* C5 (as claimed): with type-correct input and an available catalog no request
\* takes the exception path: it ends by returning a Recommendation.
C5_NoExceptionPath ==
    \A r \in DOMAIN req :
        db.available =>
            /\ req[r].pc # "raised"
            /\ Done(r) => req[r].response.status = 200

\* C7: one no-match policy: a returned list is the sentinel alone exactly when no
\* facility matches the cohort; the sentinel never accompanies a facility name, and
\* no returned list is empty.
C7_SentinelPolicy ==
    \A r \in DOMAIN req :
        Returned(r) =>
            LET names == req[r].response.names
                nomatch == MatchingPlaces(req[r].response.cohort) = {}
            IN  /\ nomatch => names = <<NoFacilityFound>>
                /\ NoFacilityFound \in SeqRange(names) =>
                       (names = <<NoFacilityFound>> /\ nomatch)
                /\ names # <<>>

\* A request whose cohort (below 10) no facility matches has returned the sentinel.
C7_Witness ==
    \E r \in DOMAIN req :
        /\ Returned(r)
        /\ req[r].response.cohort < 10
        /\ MatchingPlaces(req[r].response.cohort) = {}
        /\ req[r].response.names = <<NoFacilityFound>>

\* The generic processing error that an exception other than a catalog failure
\* gets: HTTP 500 with the prefix, ": " and the message of that exception. The
\* other exception the handler can raise is the AttributeError on user.district.
GenericErrorOfOtherException ==
    [status |-> 500, cohort |-> 0, names |-> <<>>,
     detail |-> "Oshibka obrabotki dannyh: 'UserInput' object has no attribute 'district'"]

\* C8 (as claimed): when the catalog cannot be obtained, the request fails, and
\* with a failure the caller can tell from the generic processing error that any
\* other exception gets.
C8_CatalogFailureIsDistinct ==
    \A r \in DOMAIN req :
        (Done(r) /\ req[r].variant = "app" /\ ~db.available) =>
            /\ req[r].response.status # 200
            /\ req[r].response # GenericErrorOfOtherException

----------------------------------------------------------------------------
(* Properties of concurrent requests (SpecConcurrent) *)

\* What a request gets when it is the only one: the steps of its handler in order,
\* over the catalog as the module defines it.
AloneNames(cohort) ==
    LET places == {i \in DOMAIN FacilityToCohorts :
                      FacilityToCohorts[i].low <= cohort /\ cohort < FacilityToCohorts[i].high}
        names == [k \in 1..Cardinality(places) |->
                     FacilityToCohorts[CHOOSE i \in places :
                                           Cardinality({j \in places : j <= i}) = k].name]
    IN  IF places = {} THEN <<NoFacilityFound>> ELSE names

AloneResponse(variant, user) ==
    IF variant = "main"
    THEN [status |-> 200, cohort |-> RuleTotal(user), names |-> AloneNames(RuleTotal(user)),
          detail |-> ""]
    ELSE [status |-> 500, cohort |-> 0, names |-> <<>>,
          detail |-> "Oshibka obrabotki dannyh: 'UserInput' object has no attribute 'district'"]

EachAsIfAlone ==
    \A r \in DOMAIN req :
        Done(r) => req[r].response = AloneResponse(req[r].variant, req[r].user)

\* C9: under every interleaving each request's response is the one it gets when run
\* alone, and no step changes the shared catalog.
C9_ConcurrentRequestsIndependent ==
    /\ []EachAsIfAlone
    /\ [][facility_to_cohorts' = facility_to_cohorts]_vars

\* Two requests with the same profile have both returned, each with the same single
\* facility name, and the catalog is as the module defines it.
C9_Witness ==
    \E r1, r2 \in DOMAIN req :
        /\ r1 # r2
        /\ Returned(r1) /\ Returned(r2)
        /\ req[r1].user = req[r2].user
        /\ Len(req[r1].response.names) = 1
        /\ req[r1].response.names # <<NoFacilityFound>>
        /\ req[r1].response.names = req[r2].response.names
        /\ facility_to_cohorts = FacilityToCohorts

====
